---- MODULE Spec2Model ----
(***************************************************************************)
(* Model of ml_service/simulation_engine.py: the Monte Carlo lineup        *)
(* simulation engine (SimulationEngine), its correlation model             *)
(* (CorrelationMatrix) and its scenario adjuster                           *)
(* (SimulationEngine._apply_scenario_to_lineup, ScenarioBuilder).          *)
(*                                                                         *)
(* Numbers are fixed point.  Projections (mean_projection, std_projection) *)
(* and multipliers (impact_factor, variance_adjustment) are in hundredths: *)
(* 25.0 is 2500, 0.8 is 80.  Correlations and Cholesky entries are in      *)
(* hundredths too, and so are samples and lineup scores.                   *)
(***************************************************************************)
EXTENDS Integers, Sequences, FiniteSets, TLC

VARIABLES
    heap,   \* the PlayerProjection objects: object reference -> fields
    corr,   \* engine.correlation_matrix.correlation_matrix
    chol,   \* engine.correlation_matrix.cholesky_matrix
    rng,    \* the state of numpy's global random generator
    calls,  \* number of scenario applications made so far
    last    \* what the last call was given and what it returned

vars == <<heap, corr, chol, rng, calls, last>>

-----------------------------------------------------------------------------
(* Bounds of the model *)

MaxPlayers == 2        \* objects / player ids of the caller's lineup
MaxIter == 1           \* largest iteration count requested
MaxScenarios == 2      \* longest scenario list given to scenario_analysis
MaxScenarioCalls == 2  \* scenario applications in one behaviour
MaxLen == 2            \* longest series given to fit_distribution
MaxDim == 2            \* largest matrix handed to _ensure_positive_definite
MaxQuarter == 5        \* its entries are the quarters up to MaxQuarter / 4

Objs == 1..MaxPlayers
PlayerIds == 1..MaxPlayers

\* Python's None, where a matrix or a result may stand
None == [none |-> TRUE]

\* scenario.get('injured_player_id') / .get('player_id') of a dict without
\* the key: None, which equals no player_id (player ids are positive)
NoPlayer == 0

-----------------------------------------------------------------------------
(* Fixed-point arithmetic *)

\* x * f for a value x and a multiplier f, both in hundredths
Mul(x, f) == (x * f) \div 100

Max(a, b) == IF a >= b THEN a ELSE b

RECURSIVE SumSeq(_)
SumSeq(s) == IF s = <<>> THEN 0 ELSE Head(s) + SumSeq(Tail(s))

-----------------------------------------------------------------------------
(* PlayerProjection objects and lineups *)

\* The projections a caller builds its lineup from.  Object o carries
\* player_id o.  The second player may carry a std_projection that is not a
\* valid scale (the API layer passes whatever the request holds).
BaseProjections(o) ==
    IF o = 1 THEN
        { [player_id |-> o, mean_projection |-> 2500, std_projection |-> 500,
           distribution_type |-> "normal"] }
    ELSE IF o = 2 THEN
        { [player_id |-> o, mean_projection |-> 2000, std_projection |-> 400,
           distribution_type |-> "normal"],
          [player_id |-> o, mean_projection |-> 200, std_projection |-> 100,
           distribution_type |-> "lognormal"],
          [player_id |-> o, mean_projection |-> 2000, std_projection |-> -400,
           distribution_type |-> "normal"] }
    ELSE
        { [player_id |-> o, mean_projection |-> 1800, std_projection |-> 350,
           distribution_type |-> "gamma"] }

\* A lineup is a Python list of references to PlayerProjection objects.
RECURSIVE SeqsOfDistinct(_, _)
SeqsOfDistinct(S, n) ==
    IF n = 0 THEN { <<>> }
    ELSE LET shorter == SeqsOfDistinct(S, n - 1)
         IN  shorter \cup
             { Append(s, x) : s \in { t \in shorter : Len(t) = n - 1 },
                              x \in S }

Distinct(s) == \A i, j \in 1..Len(s) : i # j => s[i] # s[j]

Lineups == { s \in SeqsOfDistinct(Objs, MaxPlayers) : Distinct(s) }

\* the caller's full lineup: every object, in order
CallerLineup == [i \in 1..MaxPlayers |-> i]

\* the field values of a lineup, read through the heap
Values(h, lineup) == [i \in 1..Len(lineup) |-> h[lineup[i]]]

-----------------------------------------------------------------------------
(* ScenarioBuilder: the scenario dicts *)

Scenario(type, impact, variance, injured, ids, pid) ==
    [type |-> type, impact_factor |-> impact, variance_adjustment |-> variance,
     injured_player_id |-> injured, player_ids |-> ids, player_id |-> pid]

create_injury_scenario(injured_player_id) ==
    Scenario("injury", 80, 120, injured_player_id, {}, NoPlayer)

create_weather_scenario(weather_impact) ==
    Scenario("weather", weather_impact, 110, NoPlayer, {}, NoPlayer)

create_rest_scenario(player_ids, rest_impact) ==
    Scenario("rest", rest_impact, 90, NoPlayer, player_ids, NoPlayer)

create_matchup_scenario(player_id, opponent_strength) ==
    Scenario("matchup", opponent_strength, 100, NoPlayer, {}, player_id)

\* The scenarios the callers of the model give: one per builder, and a dict
\* the API layer passes through whose type the adjuster does not know.
ScenarioMenu ==
    { create_injury_scenario(1),
      create_weather_scenario(95),
      create_rest_scenario({2}, 105),
      create_matchup_scenario(2, 90),
      Scenario("trade", 95, 110, NoPlayer, {}, NoPlayer) }

AdjusterTypes == {"injury", "weather", "rest", "matchup"}

\* what a caller of the adjuster itself may pass: the menu, and a weather
\* scenario built with a negative weather_impact
AdjusterScenarios ==
    ScenarioMenu \cup { create_weather_scenario(0 - 95) }

-----------------------------------------------------------------------------
(* SimulationEngine._apply_scenario_to_lineup *)

\* a faulty scope: a rest scenario reaching every player of the lineup
InScopeRestForAll(scenario, player) ==
    CASE scenario.type = "injury" ->
            player.player_id = scenario.injured_player_id
      [] scenario.type = "weather" -> TRUE
      [] scenario.type = "rest" -> TRUE
      [] scenario.type = "matchup" ->
            player.player_id = scenario.player_id
      [] OTHER -> FALSE

\* a faulty scope: the weather reaches the first player id only
InScopeWeatherOne(scenario, player) ==
    CASE scenario.type = "injury" ->
            player.player_id = scenario.injured_player_id
      [] scenario.type = "weather" -> player.player_id = 1
      [] scenario.type = "rest" ->
            player.player_id \in scenario.player_ids
      [] scenario.type = "matchup" ->
            player.player_id = scenario.player_id
      [] OTHER -> FALSE

\* the player ids a scenario applies to, as the branches of the adjuster
\* test them
InScope(scenario, player) ==
    CASE scenario.type = "injury" ->
            player.player_id = scenario.injured_player_id
      [] scenario.type = "weather" -> TRUE
      [] scenario.type = "rest" ->
            player.player_id \in scenario.player_ids
      [] scenario.type = "matchup" ->
            player.player_id = scenario.player_id
      [] OTHER -> FALSE

\* a faulty adjustment: the two factors exchanged
AdjustPlayerSwapped(player, impact_factor, variance_adjustment) ==
    [player EXCEPT
        !.mean_projection = Mul(@, variance_adjustment),
        !.std_projection = Mul(@, impact_factor)]

\* player.mean_projection *= impact_factor
\* player.std_projection *= variance_adjustment
AdjustPlayer(player, impact_factor, variance_adjustment) ==
    [player EXCEPT
        !.mean_projection = Mul(@, impact_factor),
        !.std_projection = Mul(@, variance_adjustment)]

\* The loop over adjusted_lineup, position k onward: every in-scope entry's
\* object is updated in place, through its reference.
RECURSIVE AdjustFrom(_, _, _, _)
AdjustFrom(h, lineup, scenario, k) ==
    IF k > Len(lineup) THEN h
    ELSE LET o == lineup[k]
             h2 == IF InScope(scenario, h[o])
                   THEN [h EXCEPT ![o] = AdjustPlayer(h[o],
                                            scenario.impact_factor,
                                            scenario.variance_adjustment)]
                   ELSE h
         IN  AdjustFrom(h2, lineup, scenario, k + 1)

\* adjusted_lineup = lineup.copy(): a new list holding the same references.
ListCopy(lineup) == [i \in 1..Len(lineup) |-> lineup[i]]

\* _apply_scenario_to_lineup(lineup, scenario): the heap after the call and
\* the list returned.
ApplyScenarioToLineup(h, lineup, scenario) ==
    LET adjusted_lineup == ListCopy(lineup)
    IN  [heap |-> AdjustFrom(h, adjusted_lineup, scenario, 1),
         lineup |-> adjusted_lineup]

-----------------------------------------------------------------------------
(* The historical data the database collaborator answers with *)

\* float('nan'), as pandas and numpy produce it
NaN == 99999

Row(p, g, v) == [player_id |-> p, game_id |-> g, fantasy_points |-> v]

\* Two games; odd players score more in the second, even players less (the
\* shape of the MockDatabase frame): every pair correlates +1 or -1.
HistTwoGames ==
    { Row(p, 1, 20 + 5 * p) : p \in PlayerIds } \cup
    { Row(p, 2, IF p % 2 = 1 THEN 23 + 5 * p ELSE 18 + 5 * p) : p \in PlayerIds }

\* Three games; player p has its low score in game p (modulo 3).
HistThreeGames ==
    { Row(p, g, IF g % 3 = p % 3 THEN 10 ELSE 20) :
        p \in PlayerIds, g \in 1..3 }

\* Three games; the last player scored the same in each of them.
HistConstant ==
    { Row(p, g, IF p < MaxPlayers /\ g % 3 = p % 3 THEN 10 ELSE 20) :
        p \in PlayerIds, g \in 1..3 }

\* Three games; the last player has no row for game 1.
HistMissing ==
    { r \in HistThreeGames : ~(r.player_id = MaxPlayers /\ r.game_id = 1) }

\* Rows of the first player only.
HistSingle == { r \in HistThreeGames : r.player_id = 1 }

\* the rows of the frames the database answers with
HistFrames ==
    { {}, HistTwoGames, HistThreeGames, HistConstant, HistMissing, HistSingle }

\* What db.get_dataframe(query) does: raise, or return a frame.  A frame has
\* the columns the query selects, or lacks fantasy_points.
DbAnswer(raises, columns, rows) ==
    [raises |-> raises, columns |-> columns, rows |-> rows]

DbAnswers ==
    { DbAnswer(TRUE, TRUE, {}),
      DbAnswer(FALSE, FALSE, HistTwoGames) } \cup
    { DbAnswer(FALSE, TRUE, rows) : rows \in HistFrames }

\* pd.DataFrame(): the empty frame
EmptyFrame == DbAnswer(FALSE, TRUE, {})

-----------------------------------------------------------------------------
(* CorrelationMatrix.calculate_correlations *)

\* the sum of f[x] over the x of S
RECURSIVE SumOver(_, _)
SumOver(S, f) ==
    IF S = {} THEN 0
    ELSE LET x == CHOOSE y \in S : TRUE
         IN  f[x] + SumOver(S \ {x}, f)

\* the elements of a finite set of integers, ascending
RECURSIVE Sorted(_)
Sorted(S) ==
    IF S = {} THEN <<>>
    ELSE LET m == CHOOSE x \in S : \A y \in S : x <= y
         IN  <<m>> \o Sorted(S \ {m})

\* floor of the square root of n >= 0
RECURSIVE ISqrtIn(_, _, _)
ISqrtIn(n, lo, hi) ==
    IF hi - lo <= 1 THEN lo
    ELSE LET mid == (lo + hi) \div 2
         IN  IF mid * mid <= n THEN ISqrtIn(n, mid, hi)
             ELSE ISqrtIn(n, lo, mid)

ISqrt(n) == ISqrtIn(n, 0, 40000)

\* the value the pivot gives to a (game, player) combination absent from
\* the observations
FillValue == 0

\* player_data.pivot_table(index='game_id', columns='player_id',
\*                         values='fantasy_points', fill_value=0)
\* players in ascending order as columns; a cell is the mean of its rows.
PivotTable(rows) ==
    LET ids == Sorted({ r.player_id : r \in rows })
        games == { r.game_id : r \in rows }
        Cell(g, p) ==
            LET here == { r \in rows : r.game_id = g /\ r.player_id = p }
                points == [r \in here |-> r.fantasy_points]
            IN  IF here = {} THEN FillValue
                ELSE SumOver(here, points) \div Cardinality(here)
    IN  [ids |-> ids, games |-> games,
         cell |-> [g \in games |-> [k \in 1..Len(ids) |-> Cell(g, ids[k])]]]

\* Pearson's r of columns a and b of the pivot, in hundredths; NaN when a
\* column has no variance.
Pearson(pivot, a, b) ==
    LET n == Cardinality(pivot.games)
        G == pivot.games
        x == [g \in G |-> pivot.cell[g][a]]
        y == [g \in G |-> pivot.cell[g][b]]
        sx == SumOver(G, x)
        sy == SumOver(G, y)
        cov == n * SumOver(G, [g \in G |-> x[g] * y[g]]) - sx * sy
        vx == n * SumOver(G, [g \in G |-> x[g] * x[g]]) - sx * sx
        vy == n * SumOver(G, [g \in G |-> y[g] * y[g]]) - sy * sy
        d == ISqrt(vx * vy)
    IN  IF vx = 0 \/ vy = 0 THEN NaN
        ELSE IF cov >= 0 THEN (100 * cov + d \div 2) \div d
        ELSE 0 - ((100 * (0 - cov) + d \div 2) \div d)

\* pivot_data.corr(): a square matrix over the pivot's columns.  eps counts
\* the 1e-8 the repair has added to the diagonal, which is below the
\* resolution of the entries.
Corr(pivot) ==
    LET n == Len(pivot.ids)
    IN  [ids |-> pivot.ids,
         m |-> [i \in 1..n |-> [j \in 1..n |-> Pearson(pivot, i, j)]],
         eps |-> 0]

-----------------------------------------------------------------------------
(* CorrelationMatrix._ensure_positive_definite *)

\* np.eye(n)
Eye(n) == [i \in 1..n |-> [j \in 1..n |-> IF i = j THEN 100 ELSE 0]]

HasNaN(m) == \E i \in 1..Len(m) : \E j \in 1..Len(m) : m[i][j] = NaN

\* s without its k-th element
Without(s, k) == [i \in 1..(Len(s) - 1) |-> IF i < k THEN s[i] ELSE s[i + 1]]

\* the determinant of the rows and columns idx of m - shift * I, expanded
\* along its first row
RECURSIVE Det(_, _, _, _)
Det(m, shift, rows, cols) ==
    IF rows = <<>> THEN 1
    ELSE LET Entry(k) == m[rows[1]][cols[k]]
                         - (IF rows[1] = cols[k] THEN shift ELSE 0)
             Term(k) == (IF k % 2 = 1 THEN 1 ELSE 0 - 1) * Entry(k)
                        * Det(m, shift, Tail(rows), Without(cols, k))
             terms == [k \in 1..Len(cols) |-> Term(k)]
         IN  SumOver(1..Len(cols), terms)

\* m - shift * I is positive semi-definite: its principal minors are >= 0
PositiveSemiDefinite(m, shift) ==
    \A S \in SUBSET (1..Len(m)) :
        S # {} => Det(m, shift, Sorted(S), Sorted(S)) >= 0

\* the largest shift of lo..hi that leaves m - shift * I positive
\* semi-definite, given that lo does
RECURSIVE LargestShift(_, _, _)
LargestShift(m, lo, hi) ==
    IF hi - lo <= 1 THEN lo
    ELSE LET mid == (lo + hi) \div 2
         IN  IF PositiveSemiDefinite(m, mid) THEN LargestShift(m, mid, hi)
             ELSE LargestShift(m, lo, mid)

\* np.min(np.real(np.linalg.eigvals(m))), to the hundredth below it
MinEigenvalue(m) == LargestShift(m, 0 - 100 * Len(m), 201)

\* a faulty threshold: only a negative eigenvalue is repaired
BelowZero(min_eigenval) == min_eigenval < 0

\* min_eigenval < 1e-8, for a min_eigenval known to the hundredth
BelowEpsilon(min_eigenval) == min_eigenval <= 0

\* correlation_matrix += np.eye(n) * (1e-8 - min_eigenval)
Repair(c, min_eigenval) ==
    [c EXCEPT
        !.m = [i \in 1..Len(c.m) |-> [j \in 1..Len(c.m) |->
                  IF i = j THEN c.m[i][j] - min_eigenval ELSE c.m[i][j]]],
        !.eps = @ + 1]

\* <<1, ..., k>>
Upto(k) == [i \in 1..k |-> i]

\* c is positive definite, the condition under which np.linalg.cholesky
\* does not raise LinAlgError.  With the 1e-8 of the repair on the diagonal
\* (eps > 0) that is c.m being positive semi-definite; without it, every
\* leading principal minor of c.m being positive.
PositiveDefinite(c) ==
    IF c.eps > 0 THEN PositiveSemiDefinite(c.m, 0)
    ELSE \A k \in 1..Len(c.m) : Det(c.m, 0, Upto(k), Upto(k)) > 0

\* np.linalg.cholesky(c): the lower-triangular factor, row by row, to the
\* hundredth; a pivot the rounding of the rows before it takes below 0
\* is 0.
Cholesky(c) ==
    LET n == Len(c.m)
        L[i \in 1..n, j \in 1..n] ==
            LET dot == SumOver(1..(j - 1), [k \in 1..(j - 1) |-> L[i, k] * L[j, k]])
                num == 100 * c.m[i][j] - dot
            IN  IF j > i THEN 0
                ELSE IF i = j THEN (IF num >= 0 THEN ISqrt(num) ELSE 0)
                ELSE IF L[j, j] <= 0 THEN 0
                ELSE IF num >= 0 THEN (num + L[j, j] \div 2) \div L[j, j]
                ELSE 0 - ((0 - num + L[j, j] \div 2) \div L[j, j])
    IN  [ok |-> PositiveDefinite(c),
         m |-> [i \in 1..n |-> [j \in 1..n |-> L[i, j]]]]

\* a faulty repair: a failed decomposition leaves no factor behind
EnsurePositiveDefiniteNoFallback(c) ==
    LET n == Len(c.m)
    IN  IF n = 0 \/ HasNaN(c.m)
        THEN [correlation_matrix |-> c, cholesky_matrix |-> None,
              failed |-> TRUE]
        ELSE LET min_eigenval == MinEigenvalue(c.m)
                 repaired == IF BelowEpsilon(min_eigenval)
                             THEN Repair(c, min_eigenval) ELSE c
                 factor == Cholesky(repaired)
             IN  [correlation_matrix |-> repaired,
                  cholesky_matrix |->
                      IF factor.ok THEN [m |-> factor.m] ELSE None,
                  failed |-> ~factor.ok]

\* _ensure_positive_definite(): the matrix and the factor the model holds
\* afterwards.  eigvals raises on NaN entries and np.min raises on no
\* eigenvalue at all; the handler then sets the identity.
EnsurePositiveDefinite(c) ==
    LET n == Len(c.m)
    IN  IF n = 0 \/ HasNaN(c.m)
        THEN [correlation_matrix |-> c, cholesky_matrix |-> [m |-> Eye(n)],
              failed |-> TRUE]
        ELSE LET min_eigenval == MinEigenvalue(c.m)
                 repaired == IF BelowEpsilon(min_eigenval)
                             THEN Repair(c, min_eigenval) ELSE c
                 factor == Cholesky(repaired)
             IN  [correlation_matrix |-> repaired,
                  cholesky_matrix |->
                      [m |-> IF factor.ok THEN factor.m ELSE Eye(n)],
                  failed |-> ~factor.ok]

\* what pivot, corr() and _ensure_positive_definite() make of each frame
\* the database answers with
Correlations ==
    [rows \in HistFrames \ {{}} |->
        EnsurePositiveDefinite(Corr(PivotTable(rows)))]

\* calculate_correlations(player_data) on an engine holding (corr, chol):
\* what the engine holds afterwards.  The pivot raises KeyError on a frame
\* without the fantasy_points column; the handler logs it and leaves the
\* model as it was.
CalculateCorrelations(engine, player_data) ==
    IF ~player_data.columns
    THEN [correlation_matrix |-> engine.correlation_matrix,
          cholesky_matrix |-> engine.cholesky_matrix,
          computed |-> FALSE, failed |-> FALSE]
    ELSE LET made == Correlations[player_data.rows]
         IN  [correlation_matrix |-> made.correlation_matrix,
              cholesky_matrix |-> made.cholesky_matrix,
              computed |-> TRUE, failed |-> made.failed]

-----------------------------------------------------------------------------
(* numpy.random: the global generator *)

RngStates == 0..2

\* the generator's next state
RngNext(x) == (x + 2) % 3

\* the state k draws later
RECURSIVE RngSkip(_, _)
RngSkip(x, k) == IF k <= 0 THEN x ELSE RngSkip(RngNext(x), k - 1)

\* the standard-normal value drawn in state x, in hundredths
RngNormal(x) == ((x % 3) - 1) * 100

\* the k-th standard-normal value drawn from state x on
Draw(x, k) == RngNormal(RngSkip(x, k - 1))

-----------------------------------------------------------------------------
(* Sampling a player *)

\* e^q in hundredths for a whole q; beyond the table the nearest entry
ExpWhole(q) ==
    CASE q <= 0 - 3 -> 5
      [] q = 0 - 2 -> 14
      [] q = 0 - 1 -> 37
      [] q = 0 -> 100
      [] q = 1 -> 272
      [] q = 2 -> 739
      [] q = 3 -> 2009
      [] q = 4 -> 5460
      [] q = 5 -> 14841
      [] q = 6 -> 40343
      [] q = 7 -> 109663
      [] OTHER -> 298096

\* e^(f/100) in hundredths for 0 <= f < 100: the series to the fourth power
ExpFraction(f) ==
    100 + f + (f * f) \div 200 + (f * f * f) \div 60000
        + (f * f * f * f) \div 2400000

\* e^(x/100) in hundredths
Exp(x) == (ExpWhole(x \div 100) * ExpFraction(x % 100)) \div 100

\* np.random.normal(loc, scale): loc + scale * z for the standard-normal z
Normal(loc, scale, z) == loc + (scale * z) \div 100

\* np.random.lognormal(mean, sigma)
LogNormal(mean, sigma, z) == Exp(Normal(mean, sigma, z))

\* numpy raises ValueError for a negative scale / sigma
SampleRaises(player) == player.std_projection < 0

\* the sample of the branch on player.distribution_type, z being the
\* standard-normal value the generator gives to the draw
Sample(player, z) ==
    IF player.distribution_type = "normal"
    THEN Normal(player.mean_projection, player.std_projection, z)
    ELSE IF player.distribution_type = "lognormal"
    THEN LogNormal(player.mean_projection, player.std_projection, z)
    ELSE Normal(player.mean_projection, player.std_projection, z)

\* the numpy sampler that branch calls: np.random.normal or
\* np.random.lognormal
SampledFamily(player) ==
    IF player.distribution_type = "normal" THEN "normal"
    ELSE IF player.distribution_type = "lognormal" THEN "lognormal"
    ELSE "normal"

\* sample * (1 + correlation_factor * 0.1)
CorrelationAdjusted(sample, correlation_factor) ==
    (sample * (1000 + correlation_factor)) \div 1000

\* a faulty adjustment: the multiplier applied whatever the flag says
NudgedAlways(include_correlations, sample, correlation_factor) ==
    CorrelationAdjusted(sample, correlation_factor)

\* if include_correlations: sample = sample * (1 + correlation_factor * 0.1)
Nudged(include_correlations, sample, correlation_factor) ==
    IF include_correlations
    THEN CorrelationAdjusted(sample, correlation_factor)
    ELSE sample

-----------------------------------------------------------------------------
(* CorrelationMatrix.generate_correlated_samples *)

\* np.dot(independent_samples, cholesky_matrix.T); on a shape mismatch
\* np.dot raises and the handler returns independent_samples.  width is the
\* number of columns of independent_samples.
GenerateCorrelatedSamples(cholesky_matrix, independent_samples, width) ==
    IF cholesky_matrix = None THEN independent_samples
    ELSE IF Len(cholesky_matrix.m) # width THEN independent_samples
    ELSE [i \in 1..Len(independent_samples) |-> [j \in 1..width |->
            SumOver(1..width,
                    [k \in 1..width |->
                        independent_samples[i][k] * cholesky_matrix.m[j][k]])
            \div 100]]

-----------------------------------------------------------------------------
(* The statistics of a run *)

\* s with x inserted before its first greater element
RECURSIVE Insert(_, _)
Insert(s, x) ==
    IF s = <<>> THEN <<x>>
    ELSE IF x <= Head(s) THEN <<x>> \o s
    ELSE <<Head(s)>> \o Insert(Tail(s), x)

RECURSIVE SortAscending(_)
SortAscending(s) == IF s = <<>> THEN <<>> ELSE Insert(SortAscending(Tail(s)), Head(s))

\* np.percentile(scores, q) with linear interpolation, q in tenths of a
\* percent and scores not empty
Percentile(scores, q) ==
    LET a == SortAscending(scores)
        h == (Len(a) - 1) * q
        lo == h \div 1000 + 1
        hi == IF lo < Len(a) THEN lo + 1 ELSE lo
    IN  a[lo] + ((h % 1000) * (a[hi] - a[lo])) \div 1000

\* the threshold of probability_above_threshold, in hundredths
Threshold == 30000

SimulationResult(mean, std, p10, p25, p50, p75, p90, lo, hi, prob, iterations) ==
    [mean_score |-> mean, std_score |-> std,
     percentile_10 |-> p10, percentile_25 |-> p25, percentile_50 |-> p50,
     percentile_75 |-> p75, percentile_90 |-> p90,
     confidence_interval_95 |-> <<lo, hi>>,
     probability_above_threshold |-> prob,
     iterations |-> iterations, simulation_type |-> "MONTE_CARLO"]

\* the fields of the SimulationResult dataclass
SimulationResultFields ==
    { "mean_score", "std_score", "percentile_10", "percentile_25",
      "percentile_50", "percentile_75", "percentile_90",
      "confidence_interval_95", "probability_above_threshold",
      "iterations", "simulation_type" }

\* a faulty handler result: the requested count of one iteration kept
FallbackResultCounted == SimulationResult(0, 0, 0, 0, 0, 0, 0, 0, 0, 0, 1)

\* the result the handler of monte_carlo_simulation returns
FallbackResult == SimulationResult(0, 0, 0, 0, 0, 0, 0, 0, 0, 0, 0)

\* the statistics of an array without elements, where numpy gives nan
NaNResult(iterations) ==
    SimulationResult(NaN, NaN, NaN, NaN, NaN, NaN, NaN, NaN, NaN, NaN,
                     iterations)

\* the statistics of lineup_scores, not empty
Statistics(lineup_scores, iterations) ==
    LET n == Len(lineup_scores)
        sum == SumSeq(lineup_scores)
        squares == SumSeq([i \in 1..n |-> lineup_scores[i] * lineup_scores[i]])
        above == Cardinality({ i \in 1..n : lineup_scores[i] > Threshold })
    IN  SimulationResult(
            sum \div n,
            ISqrt(n * squares - sum * sum) \div n,
            Percentile(lineup_scores, 100),
            Percentile(lineup_scores, 250),
            Percentile(lineup_scores, 500),
            Percentile(lineup_scores, 750),
            Percentile(lineup_scores, 900),
            Percentile(lineup_scores, 25),
            Percentile(lineup_scores, 975),
            (100 * above) \div n,
            iterations)

-----------------------------------------------------------------------------
(* SimulationEngine._get_historical_correlation_data *)

\* the frame the engine works with: the database's, or an empty one when
\* get_dataframe raised
GetHistoricalCorrelationData(answer) ==
    IF answer.raises THEN EmptyFrame ELSE answer

\* historical_data.empty
Empty(frame) == frame.rows = {}

-----------------------------------------------------------------------------
(* SimulationEngine.monte_carlo_simulation *)

Min(S) == CHOOSE x \in S : \A y \in S : x <= y

\* if include_correlations: fetch the history and, unless it is empty,
\* calculate_correlations on it: what the engine's CorrelationMatrix holds
\* afterwards
CorrelationModel(engine, include_correlations, answer) ==
    LET historical_data == GetHistoricalCorrelationData(answer)
    IN  IF include_correlations /\ ~Empty(historical_data)
        THEN CalculateCorrelations(engine, historical_data)
        ELSE [correlation_matrix |-> engine.correlation_matrix,
              cholesky_matrix |-> engine.cholesky_matrix,
              computed |-> FALSE, failed |-> FALSE]

\* The call from the draw of independent_samples on: players are the
\* lineup's projections, model what the CorrelationMatrix holds, x the
\* generator's state.
SimulateWith(players, model, x, iterations, include_correlations, empty_raises) ==
    LET n == Len(players)
        \* np.random.normal(0, 1, (iterations, len(lineup)))
        independent_samples ==
            [i \in 1..iterations |-> [j \in 1..n |-> Draw(x, (i - 1) * n + j)]]
        x1 == RngSkip(x, iterations * n)
        transform == include_correlations /\ model.cholesky_matrix # None
        correlated_samples ==
            IF transform
            THEN GenerateCorrelatedSamples(model.cholesky_matrix,
                                           independent_samples, n)
            ELSE independent_samples
        \* the factor that went into correlated_samples
        factor_used ==
            IF transform /\ Len(model.cholesky_matrix.m) = n
            THEN model.cholesky_matrix ELSE None
        raw == [i \in 1..iterations |-> [j \in 1..n |->
                   Sample(players[j], Draw(x1, (i - 1) * n + j))]]
        adjusted == [i \in 1..iterations |-> [j \in 1..n |->
                   Nudged(include_correlations, raw[i][j],
                          correlated_samples[i][j])]]
        lineup_scores == [i \in 1..iterations |->
                   SumSeq([j \in 1..n |-> Max(0, adjusted[i][j])])]
        bad == { j \in 1..n : SampleRaises(players[j]) }
        Outcome(result, state, completed) ==
            [correlation_matrix |-> model.correlation_matrix,
             cholesky_matrix |-> model.cholesky_matrix,
             rng |-> state,
             result |-> result,
             raised |-> "none",
             completed |-> completed,
             queried |-> include_correlations,
             computed |-> model.computed,
             failed |-> model.failed,
             factor_used |-> IF completed THEN factor_used ELSE None,
             multiplied |-> completed /\ include_correlations,
             independent_samples |->
                 IF completed THEN independent_samples ELSE <<>>,
             correlated_samples |->
                 IF completed THEN correlated_samples ELSE <<>>,
             families |->
                 IF completed /\ iterations >= 1
                 THEN [j \in 1..n |-> SampledFamily(players[j])] ELSE <<>>,
             raw |-> IF completed THEN raw ELSE <<>>,
             adjusted |-> IF completed THEN adjusted ELSE <<>>,
             lineup_scores |-> IF completed THEN lineup_scores ELSE <<>>]
    IN  IF iterations < 0
        THEN \* a negative dimension: ValueError, caught by the handler
             Outcome(FallbackResult, x, FALSE)
        ELSE IF iterations >= 1 /\ bad # {}
        THEN \* the first draw for a player with a negative scale raises
             Outcome(FallbackResult, RngSkip(x1, Min(bad) - 1), FALSE)
        ELSE IF iterations = 0
        THEN IF empty_raises THEN Outcome(FallbackResult, x1, FALSE)
             ELSE Outcome(NaNResult(iterations), x1, TRUE)
        ELSE Outcome(Statistics(lineup_scores, iterations),
                     RngSkip(x1, iterations * n), TRUE)

\* One call on an engine holding `engine`, with the generator in state x
\* and the lineup's objects as the heap h holds them.  empty_raises: whether
\* this numpy raises on the percentile of an array without elements (newer
\* versions) or gives nan (older ones).
\* Returns what the engine and the generator hold afterwards, the result
\* returned, and what the run did on the way.
MonteCarloSimulation(h, engine, x, lineup, iterations, include_correlations, answer, empty_raises) ==
    SimulateWith(Values(h, lineup),
                 CorrelationModel(engine, include_correlations, answer),
                 x, iterations, include_correlations, empty_raises)

-----------------------------------------------------------------------------
(* SimulationEngine.scenario_analysis *)

\* f"scenario_{i+1}_{scenario.get('type', 'unknown')}"
Label(i, scenario) == <<i, scenario.type>>

\* results[label] = scenario_result
DictSet(results, label, result) ==
    { e \in results : e.label # label } \cup
    { [label |-> label, result |-> result] }

\* results[label] = scenario_result, with what the run left in the engine
\* and the generator
ScenarioRecorded(st, applied, label, run) ==
    [heap |-> applied.heap,
     correlation_matrix |-> run.correlation_matrix,
     cholesky_matrix |-> run.cholesky_matrix,
     rng |-> run.rng,
     results |-> DictSet(st.results, label, run.result),
     simulated |-> Append(st.simulated, Values(applied.heap, applied.lineup)),
     started |-> Append(st.started,
                        [correlation_matrix |-> st.correlation_matrix,
                         cholesky_matrix |-> st.cholesky_matrix,
                         rng |-> st.rng]),
     runs |-> st.runs + 1]

\* the body of the loop once adjusted_lineup is there:
\* monte_carlo_simulation(adjusted_lineup, iterations,
\*                        include_correlations=True)
ScenarioSimulated(st, applied, label, iterations, answer, empty_raises) ==
    ScenarioRecorded(
        st, applied, label,
        MonteCarloSimulation(
            applied.heap,
            [correlation_matrix |-> st.correlation_matrix,
             cholesky_matrix |-> st.cholesky_matrix],
            st.rng, applied.lineup, iterations, TRUE, answer, empty_raises))

\* The loop over the scenarios, from the k-th on.  st carries the heap, the
\* engine, the generator, the results dict and, for each scenario done, the
\* field values of the lineup that was simulated and the engine and
\* generator its run started from.
RECURSIVE ScenarioAnalysisFrom(_, _, _, _, _, _, _)
ScenarioAnalysisFrom(st, base_lineup, scenarios, k, iterations, answer, empty_raises) ==
    IF k > Len(scenarios) THEN st
    ELSE ScenarioAnalysisFrom(
             ScenarioSimulated(
                 st, ApplyScenarioToLineup(st.heap, base_lineup, scenarios[k]),
                 Label(k, scenarios[k]), iterations, answer, empty_raises),
             base_lineup, scenarios, k + 1, iterations, answer, empty_raises)

ScenarioAnalysis(h, engine, x, base_lineup, scenarios, iterations, answer, empty_raises) ==
    ScenarioAnalysisFrom(
        [heap |-> h,
         correlation_matrix |-> engine.correlation_matrix,
         cholesky_matrix |-> engine.cholesky_matrix,
         rng |-> x, results |-> {}, simulated |-> <<>>, started |-> <<>>,
         runs |-> 0],
        base_lineup, scenarios, 1, iterations, answer, empty_raises)

-----------------------------------------------------------------------------
(* The state machine *)

Iterations == (0 - 1)..MaxIter

RECURSIVE SeqsUpTo(_, _)
SeqsUpTo(S, n) ==
    IF n = 0 THEN { <<>> }
    ELSE LET shorter == SeqsUpTo(S, n - 1)
         IN  shorter \cup { Append(s, x) : s \in shorter, x \in S }

ScenarioLists == SeqsUpTo(ScenarioMenu, MaxScenarios)

Engine == [correlation_matrix |-> corr, cholesky_matrix |-> chol]

\* no call on record: the caller is between two calls
Idle == [op |-> "idle"]

\* SimulationEngine(database): a CorrelationMatrix() holding no matrix and no
\* factor.  The caller's projections are on the heap; numpy's generator is
\* in whatever state the process start left it.
Init ==
    /\ heap \in { h \in [Objs -> UNION { BaseProjections(o) : o \in Objs }] :
                    \A o \in Objs : h[o] \in BaseProjections(o) }
    /\ corr = None
    /\ chol = None
    /\ rng \in RngStates
    /\ calls = 0
    /\ last = Idle

\* The caller has taken what the last call returned and is about to make its
\* next call: only the record of the call goes.
Return ==
    /\ last # Idle
    /\ last' = Idle
    /\ UNCHANGED <<heap, corr, chol, rng, calls>>

\* engine.monte_carlo_simulation(lineup, iterations,
\*                               include_correlations=include_correlations)
MonteCarloCall ==
    \E lineup \in Lineups, iterations \in Iterations,
       include_correlations \in BOOLEAN, answer \in DbAnswers,
       empty_raises \in BOOLEAN :
        /\ last = Idle
        /\ ~include_correlations => answer = EmptyFrame
        /\ iterations # 0 => ~empty_raises
        /\ \E run \in { MonteCarloSimulation(heap, Engine, rng, lineup,
                           iterations, include_correlations, answer,
                           empty_raises) } :
               /\ corr' = run.correlation_matrix
               /\ chol' = run.cholesky_matrix
               /\ rng' = run.rng
               /\ last' = [op |-> "monte_carlo_simulation",
                           lineup |-> lineup,
                           players |-> Values(heap, lineup),
                           iterations |-> iterations,
                           include_correlations |-> include_correlations,
                           answer |-> answer,
                           empty_raises |-> empty_raises,
                           rng |-> rng,
                           engine |-> Engine,
                           run |-> run]
        /\ UNCHANGED <<heap, calls>>

\* engine._apply_scenario_to_lineup(lineup, scenario)
ApplyScenarioCall ==
    \E lineup \in Lineups, scenario \in AdjusterScenarios :
        /\ last = Idle
        /\ calls < MaxScenarioCalls
        /\ \E applied \in { ApplyScenarioToLineup(heap, lineup, scenario) } :
               /\ heap' = applied.heap
               /\ last' = [op |-> "_apply_scenario_to_lineup",
                           lineup |-> lineup,
                           scenario |-> scenario,
                           raised |-> "none",
                           before |-> Values(heap, lineup),
                           returned |-> applied.lineup,
                           adjusted |-> Values(applied.heap, applied.lineup)]
        /\ calls' = calls + 1
        /\ UNCHANGED <<corr, chol, rng>>

\* engine.scenario_analysis(base_lineup, scenarios, iterations)
ScenarioAnalysisCall ==
    \E scenarios \in ScenarioLists, iterations \in 1..MaxIter,
       answer \in DbAnswers :
        /\ last = Idle
        /\ calls + Len(scenarios) <= MaxScenarioCalls
        /\ \E done \in { ScenarioAnalysis(heap, Engine, rng, CallerLineup,
                            scenarios, iterations, answer, FALSE) } :
               /\ heap' = done.heap
               /\ corr' = done.correlation_matrix
               /\ chol' = done.cholesky_matrix
               /\ rng' = done.rng
               /\ last' = [op |-> "scenario_analysis",
                           lineup |-> CallerLineup,
                           scenarios |-> scenarios,
                           iterations |-> iterations,
                           answer |-> answer,
                           before |-> Values(heap, CallerLineup),
                           simulated |-> done.simulated,
                           started |-> done.started,
                           results |-> done.results,
                           runs |-> done.runs]
        /\ calls' = calls + Len(scenarios)

\* the engine and the generator under the calls of a simulation client
Next == MonteCarloCall \/ Return

Spec == Init /\ [][Next]_vars

\* the scenario adjuster and the scenario analysis under the calls of a
\* what-if client
NextScenario == ApplyScenarioCall \/ ScenarioAnalysisCall \/ Return

SpecScenario == Init /\ [][NextScenario]_vars

\* the scenario adjuster alone, under the calls of a client that builds
\* adjusted lineups
NextAdjuster == ApplyScenarioCall \/ Return

SpecAdjuster == Init /\ [][NextAdjuster]_vars

-----------------------------------------------------------------------------
(* CorrelationMatrix._ensure_positive_definite on a matrix of the caller's *)

\* the off-diagonal entries: the quarters from -MaxQuarter/4 to MaxQuarter/4
MatrixEntries == { 25 * k : k \in (0 - MaxQuarter)..MaxQuarter }

\* the positions above the diagonal of an n by n matrix
Above(n) == { p \in (1..n) \X (1..n) : p[1] < p[2] }

\* the symmetric n by n matrices with unit diagonal
SymmetricUnit(n) ==
    { [i \in 1..n |-> [j \in 1..n |->
          IF i = j THEN 100
          ELSE IF i < j THEN f[<<i, j>>] ELSE f[<<j, i>>]]] :
      f \in [Above(n) -> MatrixEntries] }

Matrices == UNION { SymmetricUnit(n) : n \in 1..MaxDim }

\* On a CorrelationMatrix() just built:
\* self.correlation_matrix = matrix; self._ensure_positive_definite()
EnsurePositiveDefiniteCall ==
    \E matrix \in Matrices :
        /\ last = Idle
        /\ corr = None /\ chol = None
        /\ \E made \in { EnsurePositiveDefinite(
                              [ids |-> Upto(Len(matrix)), m |-> matrix,
                               eps |-> 0]) } :
               /\ corr' = made.correlation_matrix
               /\ chol' = made.cholesky_matrix
               /\ last' = [op |-> "_ensure_positive_definite",
                           matrix |-> matrix,
                           raised |-> "none",
                           failed |-> made.failed]
        /\ UNCHANGED <<heap, rng, calls>>

\* the repair under the calls of a client that sets the matrix itself
NextRepair == EnsurePositiveDefiniteCall \/ Return

SpecRepair == Init /\ [][NextRepair]_vars

-----------------------------------------------------------------------------
(* PerformanceDistribution.fit_distribution *)

\* the families the 'auto' mode tries, in its order
Families == <<"normal", "lognormal", "gamma", "beta">>

\* What scipy makes of one family on the data: stats.<family>.fit or
\* stats.kstest raises, or they give parameters and a KS statistic (in
\* hundredths, possibly nan).  The parameters are known by their family.
FitRaises == [raises |-> TRUE]
Fitted(ks_stat) == [raises |-> FALSE, ks_stat |-> ks_stat]
FitOutcomes == { FitRaises, Fitted(10), Fitted(30), Fitted(NaN) }

Params(family) == [fitted |-> family]

\* a faulty comparison: a tie replaces the family found best so far
KsBelowOrEqual(ks_stat, best) ==
    ks_stat # NaN /\ (best = None \/ ks_stat <= best.ks_stat)

\* ks_stat < best_ks_stat on floats, best_ks_stat starting at inf
KsBelow(ks_stat, best) ==
    ks_stat # NaN /\ (best = None \/ ks_stat < best.ks_stat)

\* the loop of the 'auto' mode from the k-th family on: best is None or
\* the family found best so far with its statistic
RECURSIVE BestFitFrom(_, _, _)
BestFitFrom(fits, k, best) ==
    IF k > Len(Families) THEN best
    ELSE LET tried == fits[Families[k]]
         IN  IF ~tried.raises /\ KsBelow(tried.ks_stat, best)
             THEN BestFitFrom(fits, k + 1,
                              [family |-> Families[k],
                               ks_stat |-> tried.ks_stat])
             ELSE BestFitFrom(fits, k + 1, best)

\* np.mean(data) and np.std(data), nan on no data
Mean(data) ==
    IF data = <<>> THEN NaN ELSE SumSeq(data) \div Len(data)

Std(data) ==
    IF data = <<>> THEN NaN
    ELSE ISqrt(Len(data) * SumSeq([i \in 1..Len(data) |-> data[i] * data[i]])
               - SumSeq(data) * SumSeq(data)) \div Len(data)

\* the dict fit_distribution returns
FitResult(distribution_type, parameters, data, ks_statistic) ==
    [raised |-> "none",
     distribution_type |-> distribution_type,
     parameters |-> parameters,
     mean |-> Mean(data),
     std |-> Std(data),
     ks_statistic |-> ks_statistic]

\* a faulty handler: the exception goes on to the caller
FitFallbackPropagates(data) ==
    [FitResult("normal", [fitted |-> "moments"], data, None)
        EXCEPT !.raised = "Exception"]

\* the dict of the handler
FitFallback(data) ==
    FitResult("normal", [fitted |-> "moments"], data, None)

\* the family whose fit the explicit modes call
ExplicitFamily(distribution_type) ==
    IF distribution_type \in {"lognormal", "gamma"} THEN distribution_type
    ELSE "normal"

\* 'ks_statistic': best_ks_stat if distribution_type == 'auto' else None,
\* distribution_type being the variable the 'auto' mode has reassigned
KsReturned(distribution_type, best) ==
    IF distribution_type = "auto" THEN [ks_stat |-> best.ks_stat] ELSE None

\* fit_distribution(data, distribution_type), scipy answering with fits
FitDistribution(data, distribution_type, fits) ==
    IF distribution_type = "auto"
    THEN LET best == BestFitFrom(fits, 1, None)
         IN  IF best # None
             THEN FitResult(best.family, Params(best.family), data,
                            KsReturned(best.family, best))
             ELSE IF fits["normal"].raises THEN FitFallback(data)
             ELSE FitResult("normal", Params("normal"), data,
                            KsReturned("normal", best))
    ELSE IF fits[ExplicitFamily(distribution_type)].raises
    THEN FitFallback(data)
    ELSE FitResult(distribution_type,
                   Params(ExplicitFamily(distribution_type)), data,
                   KsReturned(distribution_type, None))

\* the values of a series, in hundredths
DataValues == { 1000, 2000 }

Series == UNION { [1..n -> DataValues] : n \in 0..MaxLen }

DistributionTypes == { "auto", "normal", "lognormal", "gamma", "beta" }

FamilySet == { Families[k] : k \in 1..Len(Families) }

\* performance_dist.fit_distribution(data, distribution_type).  An
\* explicit mode asks scipy for one family only.
FitDistributionCall ==
    \E data \in Series, distribution_type \in DistributionTypes,
       fits \in [FamilySet -> FitOutcomes] :
        /\ last = Idle
        /\ distribution_type # "auto" =>
              \A f \in FamilySet \ { ExplicitFamily(distribution_type) } :
                  fits[f] = FitRaises
        /\ last' = [op |-> "fit_distribution",
                    data |-> data,
                    distribution_type |-> distribution_type,
                    fits |-> fits,
                    returned |-> FitDistribution(data, distribution_type,
                                                 fits)]
        /\ UNCHANGED <<heap, corr, chol, rng, calls>>

\* the distribution fitter under the calls of its client
NextFit == FitDistributionCall \/ Return

SpecFit == Init /\ [][NextFit]_vars

-----------------------------------------------------------------------------
(* api.run_monte_carlo_simulation: POST /simulation/monte-carlo *)

\* player.get(key, default) on a dict of the request
Get(player, key, default) ==
    IF key \in DOMAIN player THEN player[key] ELSE default

\* the dicts a request may carry at position o of its lineup: a full one,
\* one with the player_id alone, one without player_id, one declared gamma
PlayerDicts(o) ==
    BaseProjections(o) \cup
    { [player_id |-> o], [mean_projection |-> 2500, std_projection |-> 500],
      [player_id |-> o, mean_projection |-> 1800, std_projection |-> 350,
       distribution_type |-> "gamma"] }

RECURSIVE RequestsOf(_)
RequestsOf(n) ==
    IF n = 0 THEN { <<>> }
    ELSE { Append(s, d) : s \in RequestsOf(n - 1), d \in PlayerDicts(n) }

RequestLineups == UNION { RequestsOf(n) : n \in 0..MaxPlayers }

\* PlayerProjection(player_id=player['player_id'],
\*                  mean_projection=player.get('mean_projection', 0), ...)
Projection(player) ==
    [player_id |-> player.player_id,
     mean_projection |-> Get(player, "mean_projection", 0),
     std_projection |-> Get(player, "std_projection", 100),
     distribution_type |-> Get(player, "distribution_type", "normal")]

\* player['player_id'] raises KeyError for some dict of the request
KeyErrorIn(lineup) ==
    \E k \in 1..Len(lineup) : "player_id" \notin DOMAIN lineup[k]

\* db = MLDatabase(): the class has no get_dataframe, the engine's query
\* raises AttributeError
MLDatabaseAnswer == DbAnswer(TRUE, TRUE, {})

\* a threshold query parameter of the request: absent, or 20 points.  The
\* endpoint declares lineup, iterations and include_correlations only and
\* the engine takes no threshold, so the parameter is not read.
ThresholdParams == { None, [value |-> 2000] }

\* the body the endpoint returns
SuccessBody(iterations, result) ==
    [status |-> 200,
     message |-> "Monte Carlo simulation completed successfully",
     iterations |-> iterations,
     result |-> [mean_score |-> result.mean_score,
                 std_score |-> result.std_score,
                 percentiles |-> [p10 |-> result.percentile_10,
                                  p25 |-> result.percentile_25,
                                  p50 |-> result.percentile_50,
                                  p75 |-> result.percentile_75,
                                  p90 |-> result.percentile_90],
                 confidence_interval_95 |-> result.confidence_interval_95,
                 probability_above_threshold |->
                     result.probability_above_threshold]]

\* raise HTTPException(status_code=500, detail=str(e))
ErrorResponse(detail) == [status |-> 500, detail |-> detail]

\* the endpoint once the engine has answered
Responded(request, run) ==
    /\ corr' = run.correlation_matrix
    /\ chol' = run.cholesky_matrix
    /\ rng' = run.rng
    /\ last' = [request EXCEPT
                    !.run = run,
                    !.response = SuccessBody(request.iterations, run.result)]

\* POST /simulation/monte-carlo with a lineup of dicts
MonteCarloEndpoint ==
    \E lineup \in RequestLineups, iterations \in Iterations,
       include_correlations \in BOOLEAN, empty_raises \in BOOLEAN,
       threshold \in ThresholdParams :
        /\ last = Idle
        /\ iterations # 0 => ~empty_raises
        /\ \E request \in { [op |-> "run_monte_carlo_simulation",
                              lineup |-> lineup,
                              iterations |-> iterations,
                              include_correlations |-> include_correlations,
                              threshold |-> threshold,
                              empty_raises |-> empty_raises,
                              run |-> None,
                              response |-> ErrorResponse("'player_id'")] } :
              IF KeyErrorIn(lineup)
              THEN /\ last' = request
                   /\ UNCHANGED <<corr, chol, rng>>
              ELSE \E run \in { SimulateWith(
                                   [k \in 1..Len(lineup) |->
                                       Projection(lineup[k])],
                                   CorrelationModel(Engine,
                                                    include_correlations,
                                                    MLDatabaseAnswer),
                                   rng, iterations, include_correlations,
                                   empty_raises) } :
                       Responded(request, run)
        /\ UNCHANGED <<heap, calls>>

\* the service under the requests of its HTTP clients
NextApi == MonteCarloEndpoint \/ Return

SpecApi == Init /\ [][NextApi]_vars

-----------------------------------------------------------------------------
(* Properties *)

MonteCarloDone == last.op = "monte_carlo_simulation"
ApplyDone == last.op = "_apply_scenario_to_lineup"
AnalysisDone == last.op = "scenario_analysis"

\* the scope of a scenario as the specification states it: the injured id,
\* every player (environmental, which the adjuster tags 'weather'), the
\* listed ids (rest), the one id (matchup)
SpecScope(scenario, player) ==
    \/ scenario.type = "injury"
         /\ player.player_id = scenario.injured_player_id
    \/ scenario.type = "weather"
    \/ scenario.type = "rest" /\ player.player_id \in scenario.player_ids
    \/ scenario.type = "matchup" /\ player.player_id = scenario.player_id

\* the copy of `players` the specification's adjuster returns for one
\* scenario
SpecAdjusted(players, scenario) ==
    [k \in 1..Len(players) |->
        IF SpecScope(scenario, players[k])
        THEN [players[k] EXCEPT
                !.mean_projection = Mul(@, scenario.impact_factor),
                !.std_projection = Mul(@, scenario.variance_adjustment)]
        ELSE players[k]]

\* C1: after _apply_scenario_to_lineup, and after scenario_analysis, every
\* projection of the caller's lineup has the mean_projection and
\* std_projection it had before the call.
C1_CallerLineupNotMutated ==
    (ApplyDone \/ AnalysisDone) => Values(heap, last.lineup) = last.before

\* C2: in scenario_analysis the lineup simulated for scenario i is the base
\* lineup adjusted by scenario i alone, whatever scenarios precede it.
C2_ScenariosStartFromBase ==
    AnalysisDone =>
        \A i \in 1..Len(last.scenarios) :
            last.simulated[i] = SpecAdjusted(last.before, last.scenarios[i])

\* C3: monte_carlo_simulation called with iterations <= 0 or with an empty
\* lineup raises InvalidSimulationRequestError and produces no result.
C3_InvalidRequestRaises ==
    (MonteCarloDone /\ (last.iterations <= 0 \/ last.lineup = <<>>)) =>
        /\ last.run.raised = "InvalidSimulationRequestError"
        /\ last.run.result = None

\* C4: for a scenario of type injury, environmental (tagged 'weather'), rest
\* or matchup, every in-scope player of the returned lineup has the base
\* mean_projection times impact_factor and the base std_projection times
\* variance_adjustment.
C4_InScopeAdjusted ==
    (ApplyDone /\ last.scenario.type \in AdjusterTypes) =>
        \A k \in 1..Len(last.before) :
            SpecScope(last.scenario, last.before[k]) =>
                /\ last.adjusted[k].mean_projection =
                       Mul(last.before[k].mean_projection,
                           last.scenario.impact_factor)
                /\ last.adjusted[k].std_projection =
                       Mul(last.before[k].std_projection,
                           last.scenario.variance_adjustment)

\* a call of the adjuster has multiplied an in-scope player's projection
C4_Witness ==
    /\ ApplyDone
    /\ last.scenario.type \in AdjusterTypes
    /\ \E k \in 1..Len(last.before) :
          /\ SpecScope(last.scenario, last.before[k])
          /\ last.adjusted[k].mean_projection
                 # last.before[k].mean_projection
          /\ last.adjusted[k].std_projection # last.before[k].std_projection

\* C5: the adjusted lineup has the length, the player ids and the order of
\* the base lineup, and every player outside the scenario's scope has its
\* mean_projection and std_projection unchanged.
C5_OutOfScopeUnchanged ==
    ApplyDone =>
        /\ Len(last.returned) = Len(last.lineup)
        /\ \A k \in 1..Len(last.lineup) :
              /\ last.adjusted[k].player_id = last.before[k].player_id
              /\ ~SpecScope(last.scenario, last.before[k]) =>
                    /\ last.adjusted[k].mean_projection =
                           last.before[k].mean_projection
                    /\ last.adjusted[k].std_projection =
                           last.before[k].std_projection

\* a call of the adjuster has changed one player and passed another
\* through
C5_Witness ==
    /\ ApplyDone
    /\ \E k \in 1..Len(last.lineup) :
          /\ ~SpecScope(last.scenario, last.before[k])
          /\ last.adjusted[k] = last.before[k]
    /\ \E k \in 1..Len(last.lineup) : last.adjusted[k] # last.before[k]

\* C6: a run in which a player's sample cannot be drawn still returns
\* statistics over all requested iterations, and its result carries a
\* diagnostics field counting the failures.
C6_SamplingFailureDegrades ==
    (/\ MonteCarloDone
     /\ last.iterations >= 1
     /\ \E j \in 1..Len(last.players) : SampleRaises(last.players[j])) =>
        /\ last.run.result.iterations = last.iterations
        /\ "diagnostics" \in DOMAIN last.run.result

\* historical data is available and sufficient: two players with a game in
\* common
Sufficient(answer) ==
    /\ ~answer.raises
    /\ answer.columns
    /\ \E r1, r2 \in answer.rows :
          r1.player_id # r2.player_id /\ r1.game_id = r2.game_id

\* C7: unless include_correlations is true and the historical data is
\* available and sufficient, no correlation adjustment is applied: each
\* player's sample is its own raw draw.
C7_CorrelationOnlyWithData ==
    (/\ MonteCarloDone
     /\ last.run.completed
     /\ ~(last.include_correlations /\ Sufficient(last.answer))) =>
        /\ last.run.adjusted = last.run.raw
        /\ last.run.factor_used = None

\* C8: the Cholesky factor a run uses is derived from that run's own
\* historical data; a run whose data is empty or whose correlation
\* computation failed uses no factor left by an earlier run.
C8_NoLeftoverFactor ==
    (MonteCarloDone /\ last.run.factor_used # None) => last.run.computed

\* C9: from the same generator state, a run returns what a run with the same
\* lineup, iterations, include_correlations and historical data returns on
\* an engine no call was made on before.
C9_SeededRunsAgree ==
    MonteCarloDone =>
        last.run.result =
            MonteCarloSimulation(
                heap, [correlation_matrix |-> None, cholesky_matrix |-> None],
                last.rng, last.lineup, last.iterations,
                last.include_correlations, last.answer,
                last.empty_raises).result

\* C10: when the decomposition fails, nothing is raised, the factor is the
\* identity of the matrix's size, and the run uses the independent draws.
C10_FailedDecompositionIsIdentity ==
    (MonteCarloDone /\ last.run.failed) =>
        /\ last.run.raised = "none"
        /\ chol = [m |-> Eye(Len(corr.m))]
        /\ last.run.completed =>
              last.run.correlated_samples = last.run.independent_samples

\* a run has completed on a lineup of the matrix's size after the
\* decomposition of its matrix failed
C10_Witness ==
    /\ MonteCarloDone
    /\ last.run.failed
    /\ last.run.completed
    /\ last.iterations >= 1
    /\ Len(last.lineup) = Len(corr.m)
    /\ Len(last.lineup) >= 2

\* C11: the result of a run whose decomposition failed, and which therefore
\* sampled the players independently, carries a diagnostic of the
\* downgrade: a field beyond the statistics.
C11_DowngradeReported ==
    (MonteCarloDone /\ last.run.failed) =>
        DOMAIN last.run.result \ SimulationResultFields # {}

\* the games of `rows` in which player p has an observation
GamesOf(rows, p) == { r.game_id : r \in { q \in rows : q.player_id = p } }

\* Pearson's r of the i-th and j-th player of `rows` over the games both
\* have an observation in
PairwiseExcluded(rows, i, j) ==
    LET pivot == PivotTable(rows)
        common == GamesOf(rows, pivot.ids[i]) \cap GamesOf(rows, pivot.ids[j])
    IN  Pearson([pivot EXCEPT !.games = common], i, j)

\* C12: every off-diagonal entry of the matrix calculate_correlations built
\* is the correlation of the two players over the games both were observed
\* in: a missing (player, game) combination is excluded, never an outcome
\* of zero.
C12_MissingExcluded ==
    (MonteCarloDone /\ last.run.computed) =>
        \A i, j \in 1..Len(corr.m) :
            i # j => corr.m[i][j] = PairwiseExcluded(last.answer.rows, i, j)

\* a <= b on floats: false when either side is nan
FloatLeq(a, b) == a # NaN /\ b # NaN /\ a <= b

\* the percentile ladder of a result ascends and its 95% interval holds the
\* median
Ordered(result) ==
    /\ FloatLeq(result.percentile_10, result.percentile_25)
    /\ FloatLeq(result.percentile_25, result.percentile_50)
    /\ FloatLeq(result.percentile_50, result.percentile_75)
    /\ FloatLeq(result.percentile_75, result.percentile_90)
    /\ FloatLeq(result.confidence_interval_95[1], result.percentile_50)
    /\ FloatLeq(result.percentile_50, result.confidence_interval_95[2])

RepairDone == last.op = "_ensure_positive_definite"

\* C14: for a symmetric matrix with unit diagonal, negative eigenvalues or
\* not, _ensure_positive_definite leaves a positive semi-definite matrix
\* and its Cholesky factorization does not raise: the factor kept is the
\* matrix's own, not the handler's identity.
C14_RepairedMatrixFactorizes ==
    RepairDone =>
        /\ last.raised = "none"
        /\ ~last.failed
        /\ PositiveSemiDefinite(corr.m, 0)
        /\ \A i, j \in 1..Len(corr.m) :
              i # j => corr.m[i][j] = last.matrix[i][j]

\* a matrix with a negative eigenvalue has been repaired and factorized
C14_Witness ==
    /\ RepairDone
    /\ ~PositiveSemiDefinite(last.matrix, 0)
    /\ corr.eps > 0
    /\ ~last.failed

\* C15: the matrix calculate_correlations keeps is square and symmetric
\* and every diagonal entry is 1, the repair of the diagonal included.
C15_SquareSymmetricUnitDiagonal ==
    (MonteCarloDone /\ last.run.computed) =>
        /\ \A i \in 1..Len(corr.m) : Len(corr.m[i]) = Len(corr.m)
        /\ \A i, j \in 1..Len(corr.m) : corr.m[i][j] = corr.m[j][i]
        /\ \A i \in 1..Len(corr.m) : corr.m[i][i] = 100
        /\ corr.eps = 0

FitDone == last # Idle /\ last.op = "fit_distribution"

\* fewer than 2 distinct values in the series
Degenerate(data) ==
    Cardinality({ data[i] : i \in 1..Len(data) }) < 2

\* C16: fit_distribution on a series with fewer than 2 distinct values
\* fails with DegenerateDistributionError instead of returning a fit.
C16_DegenerateSeriesRaises ==
    (FitDone /\ Degenerate(last.data))
        => last.returned.raised = "DegenerateDistributionError"

\* C17: in 'auto' mode the returned ks_statistic is the KS statistic of
\* the family that was selected, not None.
C17_AutoReturnsKsStatistic ==
    (FitDone /\ last.distribution_type = "auto"
             /\ BestFitFrom(last.fits, 1, None) # None)
        => /\ last.returned.distribution_type
                = BestFitFrom(last.fits, 1, None).family
           /\ last.returned.ks_statistic # None
           /\ last.returned.ks_statistic
                = [ks_stat |-> BestFitFrom(last.fits, 1, None).ks_stat]

\* C18: a scenario of the environmental variant (type 'weather') applies
\* its impact_factor and its variance_adjustment to every player of the
\* lineup.
C18_WeatherAdjustsEveryPlayer ==
    (ApplyDone /\ last.scenario.type = "weather") =>
        \A k \in 1..Len(last.lineup) :
            /\ last.adjusted[k].player_id = last.before[k].player_id
            /\ last.adjusted[k].mean_projection =
                   Mul(last.before[k].mean_projection,
                       last.scenario.impact_factor)
            /\ last.adjusted[k].std_projection =
                   Mul(last.before[k].std_projection,
                       last.scenario.variance_adjustment)

\* a weather scenario has changed the mean and the deviation of both
\* players of a lineup of two
C18_Witness ==
    /\ ApplyDone
    /\ last.scenario = create_weather_scenario(95)
    /\ Len(last.lineup) = 2
    /\ \A k \in 1..2 :
          /\ last.adjusted[k].mean_projection
                 # last.before[k].mean_projection
          /\ last.adjusted[k].std_projection # last.before[k].std_projection

\* the result of simulating, from the engine and the generator as the i-th
\* run found them, the lineup the call was given adjusted by the i-th
\* scenario
SpecScenarioResult(i) ==
    SimulateWith(SpecAdjusted(last.before, last.scenarios[i]),
                 CorrelationModel(last.started[i], TRUE, last.answer),
                 last.started[i].rng, last.iterations, TRUE, FALSE).result

\* C19: scenario_analysis runs exactly one simulation per scenario and
\* returns exactly one entry per scenario, also when scenarios share a
\* type, each entry being the result of simulating the lineup adjusted by
\* that scenario with the requested iteration count.
C19_OneResultPerScenario ==
    AnalysisDone =>
        /\ last.runs = Len(last.scenarios)
        /\ Cardinality(last.results) = Len(last.scenarios)
        /\ \A i \in 1..Len(last.scenarios) :
              \E e \in last.results :
                  /\ e.label = Label(i, last.scenarios[i])
                  /\ e.result = SpecScenarioResult(i)

EndpointDone == last.op = "run_monte_carlo_simulation"

\* the request is invalid, or the simulation raised inside the engine
FailedFatally ==
    \/ last.lineup = <<>>
    \/ last.iterations <= 0
    \/ last.run = None
    \/ ~last.run.completed

\* C20: when a simulation fails fatally (invalid request or internal
\* error), the Monte Carlo endpoint answers with an error response; it
\* never returns the success body with a result.
C20_FatalFailureIsErrorResponse ==
    (EndpointDone /\ FailedFatally) =>
        /\ last.response.status # 200
        /\ "result" \notin DOMAIN last.response

\* C21: a scenario carrying a negative impact_factor or variance_adjustment
\* is rejected by the adjuster and produces no adjusted lineup.
C21_NegativeFactorRejected ==
    (ApplyDone /\ (last.scenario.impact_factor < 0
                    \/ last.scenario.variance_adjustment < 0))
        => /\ last.raised # "none"
           /\ last.adjusted = last.before

\* the endpoint has called the engine
EngineAnswered == EndpointDone /\ last.run # None

\* mean_score, every percentile and both ends of the interval are numbers
\* not below 0
NonNegative(result) ==
    /\ FloatLeq(0, result.mean_score)
    /\ FloatLeq(0, result.percentile_10)
    /\ FloatLeq(0, result.percentile_25)
    /\ FloatLeq(0, result.percentile_50)
    /\ FloatLeq(0, result.percentile_75)
    /\ FloatLeq(0, result.percentile_90)
    /\ FloatLeq(0, result.confidence_interval_95[1])
    /\ FloatLeq(0, result.confidence_interval_95[2])

Abs(a) == IF a < 0 THEN 0 - a ELSE a

\* C23: for every player and iteration the correlation multiplier
\* 1 + correlation_factor * 0.1 stays within [0.9, 1.1], so the adjusted
\* sample differs from the raw sample by at most a tenth of the raw sample
\* (up to the rounding of one hundredth).
C23_NudgeBounded ==
    (MonteCarloDone /\ last.run.completed /\ last.include_correlations) =>
        \A i \in 1..Len(last.run.raw) : \A j \in 1..Len(last.lineup) :
            /\ 1000 + last.run.correlated_samples[i][j] >= 900
            /\ 1000 + last.run.correlated_samples[i][j] <= 1100
            /\ 10 * Abs(last.run.adjusted[i][j] - last.run.raw[i][j])
                   <= Abs(last.run.raw[i][j]) + 10

\* scipy fitted the family and gave a number for its KS statistic
HasKs(fits, f) == ~fits[f].raises /\ fits[f].ks_stat # NaN

\* the place of a family in the fixed order
Position(f) == CHOOSE k \in 1..Len(Families) : Families[k] = f

\* an 'auto' call in which at least one candidate has a KS statistic
AutoFitted ==
    /\ FitDone
    /\ last.distribution_type = "auto"
    /\ \E f \in FamilySet : HasKs(last.fits, f)

\* C24: in 'auto' mode fit_distribution selects, among the candidates
\* whose fit succeeded, the one with the minimum KS statistic, and among
\* those that tie for the minimum the earliest in the order normal,
\* lognormal, gamma, beta.
C24_MinimumKsEarliestWins ==
    AutoFitted =>
        /\ last.returned.distribution_type \in FamilySet
        /\ HasKs(last.fits, last.returned.distribution_type)
        /\ last.returned.parameters.fitted = last.returned.distribution_type
        /\ \A g \in FamilySet :
              HasKs(last.fits, g) =>
                /\ last.fits[last.returned.distribution_type].ks_stat
                       <= last.fits[g].ks_stat
                /\ last.fits[g].ks_stat
                       = last.fits[last.returned.distribution_type].ks_stat
                     => Position(last.returned.distribution_type)
                            <= Position(g)

\* lognormal and gamma tie for the minimum, behind them beta, and the
\* normal fit failed: lognormal is returned
C24_Witness ==
    /\ AutoFitted
    /\ last.fits["normal"].raises
    /\ last.fits["lognormal"] = Fitted(10)
    /\ last.fits["gamma"] = Fitted(10)
    /\ last.fits["beta"] = Fitted(30)
    /\ last.returned.distribution_type = "lognormal"

\* every candidate of the 'auto' mode failed
AllFailed(fits) == \A f \in FamilySet : fits[f].raises

\* C25: in 'auto' mode a candidate whose fit fails is skipped and the
\* others are still evaluated; if every candidate fails the call returns
\* a normal fit with the sample mean and standard deviation and does not
\* raise.
C25_CandidateFailureNotFatal ==
    (FitDone /\ last.distribution_type = "auto") =>
        /\ last.returned.raised = "none"
        /\ (\E g \in FamilySet : HasKs(last.fits, g)) =>
              HasKs(last.fits, last.returned.distribution_type)
        /\ AllFailed(last.fits) =>
              /\ last.returned.distribution_type = "normal"
              /\ last.returned.mean = Mean(last.data)
              /\ last.returned.std = Std(last.data)
              /\ last.returned.parameters = [fitted |-> "moments"]

\* every candidate failed on a series of two values, and the normal fit
\* of its mean and deviation came back
C25_Witness ==
    /\ FitDone
    /\ last.distribution_type = "auto"
    /\ AllFailed(last.fits)
    /\ last.data = <<1000, 2000>>
    /\ last.returned.distribution_type = "normal"
    /\ last.returned.mean = 1500
    /\ last.returned.std = 500

\* the families a projection may declare for direct sampling
DeclaredFamilies == { "normal", "lognormal", "gamma", "beta", "exponential" }

\* C26: every player is sampled under the family its distribution_type
\* declares; no declared family is sampled as a different family.
C26_DeclaredFamilySampled ==
    (EngineAnswered /\ last.run.completed /\ last.iterations >= 1) =>
        \A j \in 1..Len(last.lineup) :
            Projection(last.lineup[j]).distribution_type
                \in DeclaredFamilies
            => last.run.families[j]
                   = Projection(last.lineup[j]).distribution_type

\* the threshold the request configures, 300 points when it names none
RequestedThreshold ==
    IF last.threshold = None THEN Threshold ELSE last.threshold.value

\* C27: probability_above_threshold of a successful result is the number
\* of iterations whose lineup total is strictly greater than the threshold
\* divided by the iteration count, the threshold being the one the caller
\* configures and 300 by default.
C27_ProbabilityAboveThreshold ==
    (EngineAnswered /\ last.run.completed /\ last.iterations >= 1) =>
        /\ last.run.result.probability_above_threshold =
              (100 * Cardinality({ i \in 1..last.iterations :
                          last.run.lineup_scores[i] > RequestedThreshold }))
                  \div last.iterations
        /\ last.run.result.probability_above_threshold >= 0
        /\ last.run.result.probability_above_threshold <= 100

\* every statistic of the result is 0 and so is its iterations field
AllZero(result) ==
    /\ result.mean_score = 0
    /\ result.std_score = 0
    /\ result.percentile_10 = 0
    /\ result.percentile_25 = 0
    /\ result.percentile_50 = 0
    /\ result.percentile_75 = 0
    /\ result.percentile_90 = 0
    /\ result.confidence_interval_95 = <<0, 0>>
    /\ result.probability_above_threshold = 0
    /\ result.iterations = 0
    /\ result.simulation_type = "MONTE_CARLO"

\* the cases the claim lists as internal exceptions: an empty lineup, zero
\* iterations, a failing database, bad parameters
ListedAsException ==
    \/ last.lineup = <<>>
    \/ last.iterations <= 0
    \/ last.include_correlations /\ last.answer.raises
    \/ \E j \in 1..Len(last.players) : last.players[j].std_projection < 0

\* C28 as stated: the call never raises; a run in none of the listed cases
\* returns a result with the requested iteration count and type
\* MONTE_CARLO, and each listed case (empty lineup, zero iterations,
\* failing database, bad parameters) yields the all-zero result with
\* iterations 0.
C28_ListedCasesYieldZeros ==
    MonteCarloDone =>
        /\ last.run.raised = "none"
        /\ ~ListedAsException =>
              /\ last.run.result.iterations = last.iterations
              /\ last.run.result.simulation_type = "MONTE_CARLO"
        /\ ListedAsException => AllZero(last.run.result)

\* the inputs on which an exception reaches the handler of
\* monte_carlo_simulation: a negative iteration count, a negative
\* std_projection once a sample is drawn, the statistics of no iteration on
\* a numpy that raises for them
ReachesHandler ==
    \/ last.iterations < 0
    \/ /\ last.iterations >= 1
       /\ \E j \in 1..Len(last.players) :
              last.players[j].std_projection < 0
    \/ last.iterations = 0 /\ last.empty_raises

\* C28 (amended): the call never raises; an exception reaches its handler
\* exactly for a negative iteration count, a negative std_projection, or
\* zero iterations on a numpy that raises on an empty array, and then the
\* result is all zero with iterations 0; every other run, an empty lineup
\* or a failing database included, returns a result whose iterations field
\* is the requested count with simulation_type MONTE_CARLO.
C28_HandlerYieldsZeros ==
    MonteCarloDone =>
        /\ last.run.raised = "none"
        /\ last.run.completed = ~ReachesHandler
        /\ ReachesHandler => AllZero(last.run.result)
        /\ ~ReachesHandler =>
              /\ last.run.result.iterations = last.iterations
              /\ last.run.result.simulation_type = "MONTE_CARLO"

\* one iteration was asked for a lineup holding a negative std_projection
\* and the all-zero result came back
C28_Witness ==
    /\ MonteCarloDone
    /\ last.iterations = 1
    /\ \E j \in 1..Len(last.players) : last.players[j].std_projection < 0
    /\ ~last.run.completed
    /\ AllZero(last.run.result)

\* a run that held a Cholesky factor when it took the correlated draws
CorrelationApplied ==
    /\ MonteCarloDone
    /\ last.run.completed
    /\ last.include_correlations
    /\ last.iterations >= 1
    /\ last.run.cholesky_matrix # None

\* C29: when correlation is applied the factor has the dimension of the
\* lineup and its rows are in the lineup's order, so the correlated draw
\* used for lineup player j is the one made for that player_id; a
\* mismatch is never replaced by the uncorrelated draws.
C29_FactorMatchesLineup ==
    CorrelationApplied =>
        /\ Len(last.run.cholesky_matrix.m) = Len(last.players)
        /\ last.run.factor_used = last.run.cholesky_matrix
        /\ last.run.correlation_matrix # None =>
              /\ Len(last.run.correlation_matrix.ids) = Len(last.players)
              /\ \A j \in 1..Len(last.players) :
                    last.run.correlation_matrix.ids[j]
                        = last.players[j].player_id

\* C30: a run with include_correlations false does not query the
\* database, leaves the engine's stored correlation matrix and Cholesky
\* factor as they were, and applies no correlation multiplier to any
\* sample.
C30_UncorrelatedRunTouchesNothing ==
    (MonteCarloDone /\ ~last.include_correlations) =>
        /\ ~last.run.queried
        /\ ~last.run.computed
        /\ corr = last.engine.correlation_matrix
        /\ chol = last.engine.cholesky_matrix
        /\ last.run.factor_used = None
        /\ last.run.completed =>
              /\ last.run.adjusted = last.run.raw
              /\ last.run.correlated_samples = last.run.independent_samples

\* an engine that holds a matrix and a factor from an earlier run has made
\* a run without correlations, on draws that are not 0
C30_Witness ==
    /\ MonteCarloDone
    /\ ~last.include_correlations
    /\ last.run.completed
    /\ last.engine.correlation_matrix # None
    /\ last.engine.cholesky_matrix # None
    /\ chol = last.engine.cholesky_matrix
    /\ last.iterations = 1
    /\ Len(last.players) = 2
    /\ \A j \in 1..2 : last.run.independent_samples[1][j] # 0
    /\ last.run.adjusted = last.run.raw

====
